---- MODULE Spec2Model ----
(***************************************************************************)
(* Model of opened-dependabot-pr-slack-report, final revision of           *)
(* src/index.ts (lines 182-359): parseEnvironmentVariables, the github     *)
(* search, formatPullRequestsForSlack, postSlackMessage and the entry      *)
(* point that chains them.                                                 *)
(*                                                                         *)
(* A string is a sequence of code units.  Repository names and urls are    *)
(* spelled unit by unit (String.replace, String.split and string.Ord look  *)
(* inside them); a literal of the source that no operation looks inside    *)
(* is kept as a single unit.                                               *)
(***************************************************************************)
EXTENDS Integers, Sequences, FiniteSets, TLC

VARIABLES
  env,            \* process.env, read once by parseEnvironmentVariables
  pc,             \* where the run is
  context,        \* what parseEnvironmentVariables returned (<<>> before)
  pending,        \* the rejection of the entry point's promise (<<>> if none)
  searchCalls,    \* the requests handed to rest.search.issuesAndPullRequests
  searchResult,   \* how the search call settled (<<>> while it has not)
  pullRequests,   \* the normalized records
  blocks,         \* what formatPullRequestsForSlack returned
  postCalls,      \* the requests handed to chat.postMessage
  postResult,     \* how the post call settled (<<>> while it has not)
  slackMessages,  \* the messages the chat API accepted
  stdout, stderr, \* console.log / console.error
  exitCode        \* -1 while the process runs

vars == <<env, pc, context, pending, searchCalls, searchResult, pullRequests,
          blocks, postCalls, postResult, slackMessages, stdout, stderr, exitCode>>

\* Longest search response the model draws.
MaxItems == 3

(***************************************************************************)
(* Strings                                                                 *)
(***************************************************************************)

\* UTF-16 code units of the characters that occur in repository names/urls.
Code ==
  ("." :> 46) @@ ("/" :> 47) @@ (":" :> 58) @@ ("a" :> 97) @@ ("b" :> 98) @@
  ("c" :> 99) @@ ("e" :> 101) @@ ("g" :> 103) @@ ("h" :> 104) @@
  ("i" :> 105) @@ ("m" :> 109) @@ ("n" :> 110) @@ ("o" :> 111) @@
  ("p" :> 112) @@ ("r" :> 114) @@ ("s" :> 115) @@ ("t" :> 116) @@
  ("u" :> 117) @@ ("x" :> 120)

\* a < b on strings: the first differing code unit decides, a proper prefix
\* is smaller.
RECURSIVE StrLess(_, _)
StrLess(a, b) ==
  IF Len(b) = 0 THEN FALSE
  ELSE IF Len(a) = 0 THEN TRUE
  ELSE IF Head(a) = Head(b) THEN StrLess(Tail(a), Tail(b))
  ELSE Code[Head(a)] < Code[Head(b)]

\* string.Ord.compare
StringOrdCompare(a, b) ==
  IF StrLess(a, b) THEN -1 ELSE IF StrLess(b, a) THEN 1 ELSE 0

\* String.prototype.indexOf, 1-based; 0 when pat does not occur.
IndexOf(s, pat) ==
  LET hits == {i \in 1..(Len(s) - Len(pat) + 1) :
                 SubSeq(s, i, i + Len(pat) - 1) = pat}
  IN IF hits = {} THEN 0 ELSE CHOOSE i \in hits : \A j \in hits : i <= j

\* String.prototype.replace with a string pattern: the first occurrence only.
Replace(s, pat, rep) ==
  LET i == IndexOf(s, pat)
  IN IF i = 0 THEN s
     ELSE SubSeq(s, 1, i - 1) \o rep \o SubSeq(s, i + Len(pat), Len(s))

\* String.prototype.split on a one-unit separator.
RECURSIVE Split(_, _)
Split(s, sep) ==
  LET i == IndexOf(s, <<sep>>)
  IN IF i = 0 THEN <<s>>
     ELSE <<SubSeq(s, 1, i - 1)>> \o Split(SubSeq(s, i + 1, Len(s)), sep)

\* Array.prototype.join
RECURSIVE Join(_, _)
Join(strs, sep) ==
  IF Len(strs) = 0 THEN <<>>
  ELSE IF Len(strs) = 1 THEN strs[1]
  ELSE strs[1] \o sep \o Join(Tail(strs), sep)

\* readonlyArray.flatten
RECURSIVE Flatten(_)
Flatten(xss) == IF Len(xss) = 0 THEN <<>> ELSE Head(xss) \o Flatten(Tail(xss))

(***************************************************************************)
(* parseEnvironmentVariables                                               *)
(***************************************************************************)

EnvNames == {"GITHUB_TOKEN", "SLACK_TOKEN", "SLACK_CHANNEL", "GITHUB_REPOSITORIES"}

\* process.env.X: undefined, or a string (possibly empty).
Undefined == [defined |-> FALSE, value |-> <<>>]
Str(s) == [defined |-> TRUE, value |-> s]

\* !x || x.length === 0
Missing(x) == ~x.defined \/ Len(x.value) = 0

\* new Error(message)
Error(message) == [isError |-> TRUE, message |-> message]

MissingGithubToken ==
  <<"Missing github authorization token. Set it with the environment variable ",
    "GITHUB_TOKEN">>
MissingSlackToken ==
  <<"Missing slack authorization token. Set it with the environment variable ",
    "SLACK_TOKEN">>
MissingSlackChannel ==
  <<"Missing slack channel id. Set it with the environment variable ",
    "SLACK_CHANNEL">>
MissingRepositories ==
  <<"Missing github repositories to inspect. Set them coma-separated with the environment variable ",
    "GITHUB_REPOSITORIES">>

\* As parseEnvironmentVariables, the SLACK_CHANNEL check forgotten.
parseEnvironmentVariablesNoChannelCheck(e) ==
  IF Missing(e["GITHUB_TOKEN"])
    THEN [threw |-> TRUE, error |-> Error(MissingGithubToken)]
  ELSE IF Missing(e["SLACK_TOKEN"])
    THEN [threw |-> TRUE, error |-> Error(MissingSlackToken)]
  ELSE IF Missing(e["GITHUB_REPOSITORIES"])
    THEN [threw |-> TRUE, error |-> Error(MissingRepositories)]
  ELSE [threw |-> FALSE,
        value |-> [repositories |-> Split(e["GITHUB_REPOSITORIES"].value, ","),
                   slackChannel |-> e["SLACK_CHANNEL"].value,
                   githubToken  |-> e["GITHUB_TOKEN"].value,
                   slackToken   |-> e["SLACK_TOKEN"].value]]

\* Either the thrown Error or the returned configuration.
parseEnvironmentVariables(e) ==
  IF Missing(e["GITHUB_TOKEN"])
    THEN [threw |-> TRUE, error |-> Error(MissingGithubToken)]
  ELSE IF Missing(e["SLACK_TOKEN"])
    THEN [threw |-> TRUE, error |-> Error(MissingSlackToken)]
  ELSE IF Missing(e["SLACK_CHANNEL"])
    THEN [threw |-> TRUE, error |-> Error(MissingSlackChannel)]
  ELSE IF Missing(e["GITHUB_REPOSITORIES"])
    THEN [threw |-> TRUE, error |-> Error(MissingRepositories)]
  ELSE [threw |-> FALSE,
        value |-> [repositories |-> Split(e["GITHUB_REPOSITORIES"].value, ","),
                   slackChannel |-> e["SLACK_CHANNEL"].value,
                   githubToken  |-> e["GITHUB_TOKEN"].value,
                   slackToken   |-> e["SLACK_TOKEN"].value]]

(***************************************************************************)
(* getPullRequestsToPublish                                                *)
(***************************************************************************)

githubRepoApiBaseUrl ==
  <<"h","t","t","p","s",":","/","/","a","p","i",".","g","i","t","h","u","b",
    ".","c","o","m","/","r","e","p","o","s","/">>

\* As getRepositoryNameFromRepositoryUrl, the organisation part of the base
\* url: names of the project's own organisation lose their owner.
getRepositoryNameStrippingOwner(repositoryUrl) ==
  Replace(repositoryUrl, githubRepoApiBaseUrl \o <<"i","n","a","t","o","/">>, <<>>)

\* As getRepositoryNameFromRepositoryUrl, a url without the base url giving
\* no name at all.
getRepositoryNameOrEmpty(repositoryUrl) ==
  IF IndexOf(repositoryUrl, githubRepoApiBaseUrl) = 0 THEN <<>>
  ELSE Replace(repositoryUrl, githubRepoApiBaseUrl, <<>>)

getRepositoryNameFromRepositoryUrl(repositoryUrl) ==
  Replace(repositoryUrl, githubRepoApiBaseUrl, <<>>)

\* The q parameter of the search request.
SearchQuery(repositories) ==
  <<"state:open type:pr author:app/dependabot ">> \o
  Join([i \in 1..Len(repositories) |-> <<"repo:">> \o repositories[i]], <<" ">>)

\* The argument of rest.search.issuesAndPullRequests, with the client's auth.
SearchRequest(config) ==
  [auth |-> config.githubToken, q |-> SearchQuery(config.repositories)]

\* items.map(pullRequest => ({title, url, repo}))
NormalizeItems(its) ==
  [i \in 1..Len(its) |->
     [title |-> its[i].title,
      url   |-> its[i].html_url,
      repo  |-> getRepositoryNameFromRepositoryUrl(its[i].repository_url)]]

\* JSON.stringify of a thrown string.
JSONStringify(v) == <<"\"">> \o v \o <<"\"">>

\* The onRejected of taskEither.tryCatch around the search call.
GithubError(e) ==
  IF e.isError THEN e
  ELSE Error(<<"An error occurred when calling github api: ">> \o JSONStringify(e.value))

\* The onRejected of taskEither.tryCatch around chat.postMessage.
SlackError(e) ==
  IF e.isError THEN e
  ELSE Error(<<"An error occurred when calling slack api: ">> \o JSONStringify(e.value))

(***************************************************************************)
(* formatPullRequestsForSlack                                              *)
(***************************************************************************)

Section(text) == [type |-> "section", text |-> [type |-> "mrkdwn", text |-> text]]
Divider == [type |-> "divider"]

\* `*${repo}*`
RepoText(repo) == <<"*">> \o repo \o <<"*">>

\* `<bullet> <${url}|${title}>`, the bullet being U+2022
BulletText(pr) == <<"U+2022", " <">> \o pr.url \o <<"|">> \o pr.title \o <<">">>

\* pullRequests.map(...).join("\n")
BodyText(prs) == Join([i \in 1..Len(prs) |-> BulletText(prs[i])], <<"\n">>)

NoPullRequestText == <<":tada: *No opened dependabot pull request*">>

\* A record is kept as its entries in key insertion order.
KeyIndex(out, k) ==
  IF \E i \in 1..Len(out) : out[i].key = k
    THEN CHOOSE i \in 1..Len(out) : out[i].key = k
    ELSE 0

\* readonlyNonEmptyArray.groupBy(({ repo }) => repo): push onto the bucket of
\* a key already there, open a bucket otherwise.
RECURSIVE GroupInto(_, _)
GroupInto(out, as) ==
  IF Len(as) = 0 THEN out
  ELSE LET a == Head(as)
           i == KeyIndex(out, a.repo)
       IN GroupInto(IF i # 0
                      THEN [out EXCEPT ![i].values = Append(@, a)]
                      ELSE Append(out, [key |-> a.repo, values |-> <<a>>]),
                    Tail(as))

\* As groupBy, a record of a key already there replacing its bucket.
RECURSIVE GroupIntoOverwriting(_, _)
GroupIntoOverwriting(out, as) ==
  IF Len(as) = 0 THEN out
  ELSE LET a == Head(as)
           i == KeyIndex(out, a.repo)
       IN GroupIntoOverwriting(IF i # 0
                                 THEN [out EXCEPT ![i].values = <<a>>]
                                 ELSE Append(out, [key |-> a.repo, values |-> <<a>>]),
                               Tail(as))

groupByRepoOverwriting(as) == GroupIntoOverwriting(<<>>, as)

groupByRepo(as) == GroupInto(<<>>, as)

\* readonlyRecord.mapWithIndex((repo, pullRequests) => [name block, body block])
RepoSections(grouped) ==
  [i \in 1..Len(grouped) |->
     [key    |-> grouped[i].key,
      values |-> <<Section(RepoText(grouped[i].key)),
                   Section(BodyText(grouped[i].values))>>]]

\* Object.keys(r).sort(Ord.compare), on the entries.
RECURSIVE InsertSorted(_, _)
InsertSorted(sorted, entry) ==
  IF Len(sorted) = 0 THEN <<entry>>
  ELSE IF StringOrdCompare(entry.key, Head(sorted).key) < 0
    THEN <<entry>> \o sorted
  ELSE <<Head(sorted)>> \o InsertSorted(Tail(sorted), entry)

RECURSIVE SortByKey(_)
SortByKey(entries) ==
  IF Len(entries) = 0 THEN <<>>
  ELSE InsertSorted(SortByKey(SubSeq(entries, 1, Len(entries) - 1)),
                    entries[Len(entries)])

\* As collectSections, the keys left in insertion order (Object.entries).
collectSectionsFirstSeen(record) ==
  [i \in 1..Len(record) |-> record[i].values]

\* readonlyRecord.collect(string.Ord)((_repo, sections) => sections)
collectSections(record) ==
  LET sorted == SortByKey(record)
  IN [i \in 1..Len(sorted) |-> sorted[i].values]

\* As formatPullRequestsForSlack, the empty input not told apart.
formatWithoutEmptyCase(prs) ==
  Flatten(collectSections(RepoSections(groupByRepo(prs))))

formatPullRequestsForSlack(prs) ==
  IF Len(prs) = 0
    THEN <<Section(NoPullRequestText)>>
    ELSE Flatten(collectSections(RepoSections(groupByRepo(prs))))

(***************************************************************************)
(* What the two remote APIs may answer                                     *)
(***************************************************************************)

Suffixes ==
  { <<"a","c","m","e","/","b">>, <<"a","c","m","e","/","a">>,
    <<"i","n","a","t","o","/","x">> }

\* A url that lacks the "repos/" part of the base url.
ForeignUrl ==
  <<"h","t","t","p","s",":","/","/","a","p","i",".","g","i","t","h","u","b",
    ".","c","o","m","/","a","c","m","e","/","a">>

RepositoryUrls == {githubRepoApiBaseUrl \o s : s \in Suffixes} \cup {ForeignUrl}

Titles == { <<"Bump lodash">>, <<"Bump react">> }
HtmlUrl(title) ==
  IF title = <<"Bump lodash">> THEN <<"https://github.com/pull/1">>
  ELSE <<"https://github.com/pull/2">>

ItemPool ==
  { [title |-> t, html_url |-> HtmlUrl(t), repository_url |-> u] :
      t \in Titles, u \in RepositoryUrls }

SeqsUpTo(S, n) == UNION { [1..k -> S] : k \in 0..n }

Responses == SeqsUpTo(ItemPool, MaxItems)

\* A rejection carries an Error or any other thrown value.
Throwables ==
  { Error(<<"request failed">>), [isError |-> FALSE, value |-> <<"boom">>] }

EnvValues(name) ==
  IF name = "GITHUB_REPOSITORIES"
    THEN { Undefined, Str(<<>>),
           Str(<<"a","c","m","e","/","a",",","a","c","m","e","/","b">>),
           Str(<<"i","n","a","t","o","/","x">>) }
  ELSE IF name = "SLACK_CHANNEL"
    THEN { Undefined, Str(<<>>), Str(<<"C0123">>) }
  ELSE { Undefined, Str(<<>>), Str(<<"secret">>) }

(***************************************************************************)
(* The run                                                                 *)
(***************************************************************************)

\* What taskEither.tryCatch settles to.
Left(e) == [tag |-> "Left", left |-> e]
Right(a) == [tag |-> "Right", right |-> a]

Init ==
  /\ env \in { e \in [EnvNames -> UNION {EnvValues(n) : n \in EnvNames}] :
                 \A n \in EnvNames : e[n] \in EnvValues(n) }
  /\ pc = "start"
  /\ context = <<>>
  /\ pending = <<>>
  /\ searchCalls = <<>>
  /\ searchResult = <<>>
  /\ pullRequests = <<>>
  /\ blocks = <<>>
  /\ postCalls = <<>>
  /\ postResult = <<>>
  /\ slackMessages = <<>>
  /\ stdout = <<>>
  /\ stderr = <<>>
  /\ exitCode = -1

\* postSlackMessage(blocks) run against the context: the request it issues.
PostRequest(ctx, bs) ==
  [token |-> ctx.slackToken, channel |-> ctx.slackChannel, blocks |-> bs]

\* The synchronous part of the entry point: the pipeline is built, then
\* parseEnvironmentVariables() is evaluated as its argument.  A throw
\* rejects the entry point's promise; otherwise the search call is issued.
Main ==
  /\ pc = "start"
  /\ LET r == parseEnvironmentVariables(env)
     IN IF r.threw
          THEN /\ pending' = <<r.error>>
               /\ pc' = "rejected"
               /\ UNCHANGED <<context, searchCalls>>
          ELSE /\ context' = <<r.value>>
               /\ searchCalls' = Append(searchCalls, SearchRequest(r.value))
               /\ pc' = "awaitSearch"
               /\ UNCHANGED pending
  /\ UNCHANGED <<env, searchResult, pullRequests, blocks, postCalls, postResult,
                 slackMessages, stdout, stderr, exitCode>>

\* Nothing handles the rejection: the runtime prints it and ends the process
\* with code 1.
UnhandledRejection ==
  /\ pc = "rejected"
  /\ stderr' = Append(stderr, pending[1])
  /\ exitCode' = 1
  /\ pc' = "exited"
  /\ UNCHANGED <<env, context, pending, searchCalls, searchResult, pullRequests,
                 blocks, postCalls, postResult, slackMessages, stdout>>

\* The search resolves: map to records, format, issue the post call.
SearchResolved(its) ==
  /\ pc = "awaitSearch"
  /\ searchResult' = <<Right(its)>>
  /\ pullRequests' = NormalizeItems(its)
  /\ blocks' = formatPullRequestsForSlack(pullRequests')
  /\ postCalls' = Append(postCalls, PostRequest(context[1], blocks'))
  /\ pc' = "awaitPost"
  /\ UNCHANGED <<env, context, pending, searchCalls, postResult, slackMessages,
                 stdout, stderr, exitCode>>

\* As SearchRejected, the failure reported and an empty report still posted.
SearchRejectedStillPosts(e) ==
  /\ pc = "awaitSearch"
  /\ searchResult' = <<Left(GithubError(e))>>
  /\ stderr' = Append(stderr, GithubError(e))
  /\ blocks' = formatPullRequestsForSlack(<<>>)
  /\ postCalls' = Append(postCalls, PostRequest(context[1], blocks'))
  /\ pc' = "awaitPost"
  /\ UNCHANGED <<env, context, pending, searchCalls, pullRequests, postResult,
                 slackMessages, stdout, exitCode>>

\* The search rejects: the chain short-circuits to the left branch of match,
\* console.error(e) then process.exit(1).
SearchRejected(e) ==
  /\ pc = "awaitSearch"
  /\ searchResult' = <<Left(GithubError(e))>>
  /\ stderr' = Append(stderr, GithubError(e))
  /\ exitCode' = 1
  /\ pc' = "exited"
  /\ UNCHANGED <<env, context, pending, searchCalls, pullRequests, blocks,
                 postCalls, postResult, slackMessages, stdout>>

\* The chat API accepts the message: the right branch of match.
PostResolved ==
  /\ pc = "awaitPost"
  /\ slackMessages' = Append(slackMessages, postCalls[Len(postCalls)])
  /\ postResult' = <<Right("ok")>>
  /\ stdout' = Append(stdout, "Success!")
  /\ pc' = "idle"
  /\ UNCHANGED <<env, context, pending, searchCalls, searchResult, pullRequests,
                 blocks, postCalls, stderr, exitCode>>

\* As PostRejected, process.exit(1) forgotten after console.error(e).
PostRejectedNoExit(e) ==
  /\ pc = "awaitPost"
  /\ postResult' = <<Left(SlackError(e))>>
  /\ stderr' = Append(stderr, SlackError(e))
  /\ pc' = "idle"
  /\ UNCHANGED <<env, context, pending, searchCalls, searchResult, pullRequests,
                 blocks, postCalls, slackMessages, stdout, exitCode>>

\* As PostRejected, the post call issued again after a failure.
PostRejectedRetries(e) ==
  /\ pc = "awaitPost"
  /\ Len(postCalls) < 2
  /\ postCalls' = Append(postCalls, postCalls[Len(postCalls)])
  /\ UNCHANGED <<env, pc, context, pending, searchCalls, searchResult,
                 pullRequests, blocks, postResult, slackMessages, stdout, stderr,
                 exitCode>>

\* The chat API rejects the call: the left branch of match.
PostRejected(e) ==
  /\ pc = "awaitPost"
  /\ postResult' = <<Left(SlackError(e))>>
  /\ stderr' = Append(stderr, SlackError(e))
  /\ exitCode' = 1
  /\ pc' = "exited"
  /\ UNCHANGED <<env, context, pending, searchCalls, searchResult, pullRequests,
                 blocks, postCalls, slackMessages, stdout>>

\* Nothing is left to run: the process ends with code 0.
EventLoopDrained ==
  /\ pc = "idle"
  /\ exitCode' = 0
  /\ pc' = "exited"
  /\ UNCHANGED <<env, context, pending, searchCalls, searchResult, pullRequests,
                 blocks, postCalls, postResult, slackMessages, stdout, stderr>>

Next ==
  \/ Main
  \/ UnhandledRejection
  \/ \E its \in Responses : SearchResolved(its)
  \/ \E e \in Throwables : SearchRejected(e)
  \/ PostResolved
  \/ \E e \in Throwables : PostRejected(e)
  \/ EventLoopDrained

Spec == Init /\ [][Next]_vars

(***************************************************************************)
(* Reading a state                                                         *)
(***************************************************************************)

SearchSucceeded == Len(searchResult) = 1 /\ searchResult[1].tag = "Right"
SearchFailed == Len(searchResult) = 1 /\ searchResult[1].tag = "Left"
PostSucceeded == Len(postResult) = 1 /\ postResult[1].tag = "Right"
PostFailed == Len(postResult) = 1 /\ postResult[1].tag = "Left"

\* data.items of the response (when the search succeeded).
Items == searchResult[1].right

Range(seq) == {seq[i] : i \in 1..Len(seq)}

\* The repository names among the normalized records.
Repos == {pullRequests[i].repo : i \in 1..Len(pullRequests)}

\* The records of one repository, in fetch order.
OfRepo(r) == SelectSeq(pullRequests, LAMBDA p : p.repo = r)

\* The text of the header block of the earlier revisions.
HeaderText == <<"*Currently opened dependabot pull request:*">>

\* Where the blocks hold the name block of one of the input's repositories.
NameBlockAt == {i \in 1..Len(blocks) : \E r \in Repos : blocks[i] = Section(RepoText(r))}

\* `*${repo}*` read back.
RepoOfText(text) == SubSeq(text, 2, Len(text) - 1)

(***************************************************************************)
(* Claims                                                                  *)
(***************************************************************************)

\* C1: for a non-empty input the blocks are the header section, a divider,
\* then the per-repository pairs: 2k + 2 blocks for k repository names.
C1_HeaderDividerThenPairs ==
  (SearchSucceeded /\ Len(pullRequests) > 0) =>
    /\ Len(blocks) = 2 * Cardinality(Repos) + 2
    /\ blocks[1] = Section(HeaderText)
    /\ blocks[2] = Divider

\* C2: the name blocks of the repositories appear in ascending lexicographic
\* order of repository name, whatever the fetch order.
C2_PairsAscendingByRepo ==
  SearchSucceeded =>
    \A i, j \in NameBlockAt :
      i < j => ~StrLess(RepoOfText(blocks[j].text.text), RepoOfText(blocks[i].text.text))

\* Reached: acme/b was fetched before acme/a and acme/a is rendered first.
C2_Witness ==
  /\ SearchSucceeded
  /\ Len(pullRequests) = 2
  /\ pullRequests[1].repo = <<"a","c","m","e","/","b">>
  /\ pullRequests[2].repo = <<"a","c","m","e","/","a">>
  /\ blocks[1] = Section(RepoText(<<"a","c","m","e","/","a">>))
  /\ blocks[3] = Section(RepoText(<<"a","c","m","e","/","b">>))

\* C3: one (name block, body block) pair per repository name of the input
\* and none for another name; the body of a repository is the bullet lines
\* of exactly its records, in fetch order.
C3_OnePairPerRepoInFetchOrder ==
  SearchSucceeded =>
    /\ \A r \in Repos :
         Cardinality({i \in 1..Len(blocks) : blocks[i] = Section(RepoText(r))}) = 1
    /\ \A i \in NameBlockAt :
         /\ i < Len(blocks)
         /\ blocks[i + 1] = Section(BodyText(OfRepo(RepoOfText(blocks[i].text.text))))
    /\ \A i \in 1..Len(blocks) :
         (i \notin NameBlockAt /\ (i - 1) \notin NameBlockAt) =>
           blocks[i] \in {Section(HeaderText), Divider, Section(NoPullRequestText)}

\* Reached: two records of one repository with a record of another between.
C3_Witness ==
  /\ SearchSucceeded
  /\ Len(pullRequests) = 3
  /\ pullRequests[1].repo = pullRequests[3].repo
  /\ pullRequests[1].repo # pullRequests[2].repo
  /\ pullRequests[1].title # pullRequests[3].title
  /\ Cardinality(NameBlockAt) = 2

\* C4: with zero items the output is the single "No opened dependabot pull
\* request" section, and the post call is still issued, once, with it.
C4_EmptyInputSingleBlockPosted ==
  (SearchSucceeded /\ Len(Items) = 0) =>
    /\ blocks = <<Section(NoPullRequestText)>>
    /\ Len(postCalls) = 1
    /\ postCalls[1].blocks = <<Section(NoPullRequestText)>>
    /\ postCalls[1].channel = env["SLACK_CHANNEL"].value

C4_Witness ==
  /\ SearchSucceeded
  /\ Len(Items) = 0
  /\ PostSucceeded
  /\ slackMessages = postCalls

OnlyMissing(v) ==
  /\ Missing(env[v])
  /\ \A w \in EnvNames \ {v} : ~Missing(env[w])

\* C5: with one required variable alone unset or empty, the run ends in the
\* configuration error naming that variable and no remote call is issued.
C5_ConfigFailFast ==
  \A v \in EnvNames :
    OnlyMissing(v) =>
      /\ searchCalls = <<>>
      /\ postCalls = <<>>
      /\ slackMessages = <<>>
      /\ pc \in {"start", "rejected", "exited"}
      /\ pc # "start" =>
           /\ Len(pending) = 1
           /\ v \in Range(pending[1].message)
           /\ \A w \in EnvNames \ {v} : w \notin Range(pending[1].message)
      /\ pc = "exited" => stderr = pending

C5_Witness ==
  /\ OnlyMissing("SLACK_CHANNEL")
  /\ env["SLACK_CHANNEL"] = Str(<<>>)
  /\ pc = "exited"

\* C6: when the search call fails, with an Error or any other thrown value,
\* nothing is posted and the process exits non-zero.
C6_SearchFailureShortCircuits ==
  SearchFailed =>
    /\ postCalls = <<>>
    /\ slackMessages = <<>>
    /\ blocks = <<>>
    /\ pc = "exited"
    /\ exitCode = 1

\* Reached: the search rejected with a value that is no Error.
C6_Witness ==
  /\ SearchFailed
  /\ searchResult[1].left =
       Error(<<"An error occurred when calling github api: ", "\"", "boom", "\"">>)
  /\ exitCode = 1

ConfigValid == \A v \in EnvNames : ~Missing(env[v])

\* C7: a run ends with code 0 and "Success!" logged exactly when the
\* configuration was valid and both remote calls succeeded; with code 1 and
\* the error on the error stream on a configuration, fetch or publish
\* failure; "Success!" is never logged in a run that exits 1.
C7_OneTerminalOutcome ==
  /\ exitCode \in {-1, 0, 1}
  /\ (pc = "exited") <=> (exitCode # -1)
  /\ pc # "exited" => ENABLED Next
  /\ exitCode = 0 <=>
       (pc = "exited" /\ ConfigValid /\ SearchSucceeded /\ PostSucceeded)
  /\ exitCode = 0 => (stdout = <<"Success!">> /\ stderr = <<>>)
  /\ exitCode = 1 <=>
       (pc = "exited" /\ (~ConfigValid \/ SearchFailed \/ PostFailed))
  /\ exitCode = 1 =>
       /\ stdout = <<>>
       /\ Len(stderr) = 1
       /\ stderr[1].isError
       /\ ~ConfigValid => stderr = pending
       /\ SearchFailed => stderr[1] = searchResult[1].left
       /\ PostFailed => stderr[1] = postResult[1].left
  /\ "Success!" \in Range(stdout) => exitCode # 1

C7_Witness ==
  /\ pc = "exited"
  /\ exitCode = 0
  /\ stdout = <<"Success!">>

\* C8: at most one search call and one post call per run; a successful run
\* issued exactly one of each; a run whose post call failed left no message.
C8_AtMostOneCallEach ==
  /\ Len(searchCalls) <= 1
  /\ Len(postCalls) <= 1
  /\ Len(slackMessages) <= 1
  /\ exitCode = 0 =>
       /\ Len(searchCalls) = 1
       /\ Len(postCalls) = 1
       /\ slackMessages = postCalls
  /\ PostFailed => slackMessages = <<>>

C8_Witness ==
  /\ PostFailed
  /\ pc = "exited"
  /\ Len(searchCalls) = 1
  /\ Len(postCalls) = 1

StartsWith(s, prefix) ==
  Len(s) >= Len(prefix) /\ SubSeq(s, 1, Len(prefix)) = prefix

\* C9: for a repository_url that starts with the base url, the derived repo
\* re-prefixed with the base url is the repository_url again: the repo is
\* the owner/name suffix, whoever the owner.
C9_RepoRoundTrip ==
  SearchSucceeded =>
    \A i \in 1..Len(Items) :
      StartsWith(Items[i].repository_url, githubRepoApiBaseUrl) =>
        /\ Len(pullRequests) = Len(Items)
        /\ githubRepoApiBaseUrl \o pullRequests[i].repo = Items[i].repository_url
        /\ pullRequests[i].repo \in Suffixes

\* Reached: the project's own organisation and another owner in one response.
C9_Witness ==
  /\ SearchSucceeded
  /\ \E i, j \in 1..Len(Items) :
       /\ pullRequests[i].repo = <<"i","n","a","t","o","/","x">>
       /\ pullRequests[j].repo = <<"a","c","m","e","/","a">>
       /\ StartsWith(Items[j].repository_url, githubRepoApiBaseUrl)

\* C10: an item whose repository_url does not contain the base url is
\* neither dropped nor fatal: its repo is the whole url, it is grouped under
\* that url, posted, and the run can still succeed.
C10_ForeignUrlKeptWhole ==
  SearchSucceeded =>
    \A i \in 1..Len(Items) :
      IndexOf(Items[i].repository_url, githubRepoApiBaseUrl) = 0 =>
        /\ Len(pullRequests) = Len(Items)
        /\ pullRequests[i].repo = Items[i].repository_url
        /\ pullRequests[i].title = Items[i].title
        /\ pullRequests[i].url = Items[i].html_url
        /\ \E j \in 1..(Len(blocks) - 1) :
             /\ blocks[j] = Section(RepoText(Items[i].repository_url))
             /\ blocks[j + 1] = Section(BodyText(OfRepo(Items[i].repository_url)))
        /\ Len(postCalls) = 1 /\ postCalls[1].blocks = blocks
        /\ exitCode = 1 => PostFailed

\* Reached: a run with such an item exits 0 with the message delivered.
C10_Witness ==
  /\ exitCode = 0
  /\ \E i \in 1..Len(Items) : Items[i].repository_url = ForeignUrl
  /\ \E i \in 1..Len(Items) : Items[i].repository_url # ForeignUrl
  /\ Len(slackMessages) = 1
  /\ \E j \in 1..Len(slackMessages[1].blocks) :
       slackMessages[1].blocks[j] = Section(RepoText(ForeignUrl))

====
